---------------------------- MODULE Spec2Model ----------------------------
(***************************************************************************)
(* Model of entsoe_qdap.py: a client that requests the day-ahead          *)
(* electricity prices from the ENTSO-E REST API (one GET per query) and   *)
(* parses the XML price document into a dictionary.                        *)
(*                                                                         *)
(* Representation of values                                                *)
(*  - Python None is the string "None".                                    *)
(*  - The text of an XML element is a record tagged by field t:            *)
(*      [t |-> "absent"]            the element is not in the document     *)
(*      [t |-> "none"]              the element is empty (.text is None)   *)
(*      [t |-> "s", s |-> "A44"]    any other text                         *)
(*      [t |-> "ts", Y,m,d,H,M]     text of the shape YYYY-MM-DDTHH:MMZ    *)
(*      [t |-> "pt", n, u]          text of the shape PT<digits><letter>   *)
(*  - A float is an integer number of tenths (10.5 is 105).                *)
(*  - A wire time string YYYYMMDDHH00 is the record [Y,m,d,H,M] with the   *)
(*    minute the format's literal 00.                                      *)
(***************************************************************************)
EXTENDS Integers, Sequences, FiniteSets, TLC

VARIABLES
  xmlns_id,     \* module-level global xmlns_id (line 34, assigned at line 171)
  self,         \* the client object: [webkey, timeout]
  zone,         \* the local time zone of the process (TZ)
  now,          \* the system clock, seconds since the epoch
  pc,           \* where the caller is: "idle", "sent" (blocked in requests.get), "returned"
  kind,         \* the public query running: "today", "day_ahead" or "None"
  payload,      \* the query parameters of the GET in flight
  getTimeout,   \* the timeout argument given to requests.get
  gets,         \* GETs issued by the running query
  parses,       \* calls of _parse_xml_response made by the running query
  response,     \* the response received by the running query
  xmldoc,       \* the argument of the last _parse_xml_response call
  ret,          \* how the last call ended: a returned value or a raised exception
  lastSent      \* per public query, the window it last sent and the clock reading behind it

vars == << xmlns_id, self, zone, now, pc, kind, payload, getTimeout, gets,
           parses, response, xmldoc, ret, lastSent >>

None == "None"

(***************************************************************************)
(* Constant definitions of the module (lines 31-60).                       *)
(***************************************************************************)
document_type == "A44"
domain == "10YNL----------L"
one_day == 86400

\* reso_multif (line 45)
reso_multif == [u \in {"S", "M", "H"} |->
                  CASE u = "S" -> 1 [] u = "M" -> 60 [] u = "H" -> 3600]

Str(s) == [t |-> "s", s |-> s]
Absent == [t |-> "absent"]
NoText == [t |-> "none"]

\* The order in which Python iterates over the keys of xml_extract.
FieldOrder == << "doc_type", "curv_typ", "unit_cur", "unit_pmu", "sop", "eop", "reso" >>

FieldKeys == { FieldOrder[i] : i \in DOMAIN FieldOrder }

Level(name) == [prefix |-> None, name |-> name]

\* xml_extract (lines 51-60): XML path, expected value, clean-up flag.
xml_extract ==
  [k \in FieldKeys |->
     CASE k = "doc_type" -> [path |-> << Level("type") >>,
                             value |-> Str("A44"), cleanup |-> TRUE]
       [] k = "curv_typ" -> [path |-> << Level("TimeSeries"), Level("curveType") >>,
                             value |-> Str("A01"), cleanup |-> TRUE]
       [] k = "unit_cur" -> [path |-> << Level("TimeSeries"), Level("currency_Unit.name") >>,
                             value |-> Str("EUR"), cleanup |-> TRUE]
       [] k = "unit_pmu" -> [path |-> << Level("TimeSeries"), Level("price_Measure_Unit.name") >>,
                             value |-> NoText, cleanup |-> TRUE]
       [] k = "sop"      -> [path |-> << Level("TimeSeries"), Level("Period"),
                                         Level("timeInterval"), Level("start") >>,
                             value |-> NoText, cleanup |-> FALSE]
       [] k = "eop"      -> [path |-> << Level("TimeSeries"), Level("Period"),
                                         Level("timeInterval"), Level("end") >>,
                             value |-> NoText, cleanup |-> FALSE]
       [] k = "reso"     -> [path |-> << Level("TimeSeries"), Level("Period"),
                                         Level("resolution") >>,
                             value |-> NoText, cleanup |-> FALSE]]

\* How a call ends.
Raise(exc, what, field) == [kind |-> "raise", exc |-> exc, what |-> what, field |-> field]
Return(v) == [kind |-> "return", value |-> v]
NoRet == [kind |-> "None"]

(***************************************************************************)
(* Calendar arithmetic: time.gmtime, calendar.timegm, time.localtime.      *)
(***************************************************************************)
\* calendar.timegm: days since the epoch of a civil date, then seconds.
DaysFromCivil(Y, m, d) ==
  LET y   == IF m <= 2 THEN Y - 1 ELSE Y
      era == y \div 400
      yoe == y - era * 400
      mp  == IF m > 2 THEN m - 3 ELSE m + 9
      doy == (153 * mp + 2) \div 5 + d - 1
      doe == yoe * 365 + yoe \div 4 - yoe \div 100 + doy
  IN  era * 146097 + doe - 719468

Timegm(Y, m, d, H, M, S) == DaysFromCivil(Y, m, d) * one_day + H * 3600 + M * 60 + S

\* time.gmtime: the struct_time of a time stamp, in UTC.
Gmtime(ts) ==
  LET days == ts \div one_day
      secs == ts % one_day
      z    == days + 719468
      era  == z \div 146097
      doe  == z - era * 146097
      yoe  == (doe - doe \div 1460 + doe \div 36524 - doe \div 146096) \div 365
      doy  == doe - (365 * yoe + yoe \div 4 - yoe \div 100)
      mp   == (5 * doy + 2) \div 153
      d    == doy - (153 * mp + 2) \div 5 + 1
      m    == IF mp < 10 THEN mp + 3 ELSE mp - 9
      y    == yoe + era * 400
  IN  [tm_year |-> IF m <= 2 THEN y + 1 ELSE y, tm_mon |-> m, tm_mday |-> d,
       tm_hour |-> secs \div 3600, tm_min |-> (secs % 3600) \div 60,
       tm_sec |-> secs % 60]

DaysInMonth(Y, m) ==
  IF m = 2
    THEN (IF (Y % 4 = 0 /\ Y % 100 # 0) \/ Y % 400 = 0 THEN 29 ELSE 28)
    ELSE IF m \in {4, 6, 9, 11} THEN 30 ELSE 31

\* The local time zones of the model and their offset from UTC at an instant.
DstStart == Timegm(2023, 3, 26, 1, 0, 0)

Zones == {"UTC", "Europe/Amsterdam", "Asia/Kolkata", "America/New_York"}

UtcOffset(z, ts) ==
  CASE z = "UTC" -> 0
    [] z = "Europe/Amsterdam" -> (IF ts < DstStart THEN 3600 ELSE 7200)
    [] z = "Asia/Kolkata" -> 19800
    [] z = "America/New_York" -> 0 - 14400

\* time.localtime: the struct_time of a time stamp in the local time zone.
Localtime(z, ts) == Gmtime(ts + UtcOffset(z, ts))

(***************************************************************************)
(* XML documents and the lxml look-ups used by the parser.                 *)
(*   [wellformed, defaultns, fields, points]: whether etree.fromstring     *)
(*   accepts the text, whether the root declares a default name space,     *)
(*   the text of the seven scalar elements, and the Point elements in      *)
(*   document order, each [position, amount].                              *)
(***************************************************************************)
DocUri == "urn:iec62325.351:tc57wg16:451-3:publicationdocument:7:0"

NoNs == [x \in {} |-> x]

\* root.nsmap: the default name space is kept under key None.
Nsmap(doc) == IF doc.defaultns THEN (None :> DocUri) ELSE NoNs

\* _add_prefix (lines 77-84).
AddPrefix(rp, nsi) ==
  IF nsi = None THEN rp
  ELSE IF nsi = "" THEN rp
  ELSE [i \in DOMAIN rp |->
          IF rp[i].prefix = None
            THEN [prefix |-> nsi, name |-> rp[i].name]
            ELSE rp[i]]

\* The name space lxml's ElementPath gives one level of a path: that of its
\* prefix in the prefix map, or, for a level without prefix, the map's entry
\* under None (lxml's default name space), or no name space.
LevelNs(level, ns) ==
  IF level.prefix # None
    THEN (IF level.prefix \in DOMAIN ns THEN ns[level.prefix] ELSE "unbound")
    ELSE (IF None \in DOMAIN ns THEN ns[None] ELSE None)

\* The name space the elements of the document are in.
ElementNs(doc) == IF doc.defaultns THEN DocUri ELSE None

PathMatches(doc, xp, ns) ==
  \A i \in DOMAIN xp : LevelNs(xp[i], ns) = ElementNs(doc)

\* root.find( xp, ns ) for the scalar field k (line 176).
Find(doc, k, xp, ns) ==
  IF PathMatches(doc, xp, ns) THEN doc.fields[k] ELSE Absent

\* root.findall( point, ns ) (line 196).
FindAll(doc, xp, ns) ==
  IF PathMatches(doc, xp, ns) THEN doc.points ELSE << >>

\* k.find( index, ns ) and k.find( price, ns ) on a Point element (lines 198-199).
FindChild(doc, text, xp, ns) ==
  IF PathMatches(doc, xp, ns) THEN text ELSE Absent

(***************************************************************************)
(* Conversions of text.                                                    *)
(***************************************************************************)
\* The texts of the model that int() and float() accept; any other raises ValueError.
IntTexts == {"1", "01", "2", "3", "0"}
FloatTexts == {"10.5", "10.50", "20", "-3.2"}

\* int( text ) (line 198).
IntOf(s) ==
  CASE s = "1" -> 1 [] s = "01" -> 1 [] s = "2" -> 2 [] s = "3" -> 3 [] s = "0" -> 0

\* float( text ) (line 199), in tenths.
FloatOf(s) ==
  CASE s = "10.5" -> 105 [] s = "10.50" -> 105 [] s = "20" -> 200 [] s = "-3.2" -> 0 - 32

\* _utc_ts (lines 150-156): strptime with time_fmt_1, then calendar.timegm.
UtcTs(text) ==
  IF /\ text.t = "ts"
     /\ text.m \in 1..12
     /\ text.d \in 1..DaysInMonth(text.Y, text.m)
     /\ text.H \in 0..23
     /\ text.M \in 0..59
    THEN Return(Timegm(text.Y, text.m, text.d, text.H, text.M, 0))
    ELSE Raise("entsoeException", "strptime", None)

\* _reso_s (lines 112-122).
ResoS(step) ==
  IF step.t = "none" THEN Raise("TypeError", "match", None)
  ELSE IF ~(step.t = "pt" /\ step.u \in {"S", "M", "H"})
    THEN Raise("entsoeException", "Unrecognised resolution", None)
  ELSE IF step.u \in DOMAIN reso_multif
    THEN Return(step.n * reso_multif[step.u])
    ELSE Raise("NameError", "entsoeExeption", None)

\* The unit string (lines 185-186): currency/unit, a final WH turned into Wh.
UnitString(cur, pmu) ==
  LET p == IF pmu.t = "none" THEN "None" ELSE pmu.s
  IN  CASE p = "MWH" -> cur.s \o "/" \o "MWh"
        [] p = "KWH" -> cur.s \o "/" \o "KWh"
        [] OTHER -> cur.s \o "/" \o p

\* Mutant of PointInstant: the position taken as an offset from zero.
PointInstant_FromZero(sop, vi, reso) == sop + vi * reso

\* vt= result['sop'] + (vi-1)*result['reso'] (line 200).
PointInstant(sop, vi, reso) == sop + (vi - 1) * reso

(***************************************************************************)
(* _parse_xml_response (lines 163-207).                                    *)
(***************************************************************************)
\* Mutant of CheckField: the expected value is not compared.
CheckField_NoLiteral(k, v) ==
  IF v.t = "absent" THEN Raise("entsoeException", "Unknown field", k) ELSE Return(v)

\* The check of one scalar field (lines 177-182): the text, or the exception.
CheckField(k, v) ==
  LET fp == xml_extract[k]
  IN  IF v.t = "absent"
        THEN Raise("entsoeException", "Unknown field", k)
      ELSE IF fp.value.t # "none" /\ v # fp.value
        THEN Raise("entsoeException", "Unexpected value", k)
      ELSE Return(v)

\* The loop over xml_extract (lines 173-183) from its i-th key on.
RECURSIVE ExtractLoop(_, _, _, _, _)
ExtractLoop(doc, nsid, ns, i, result) ==
  IF i > Len(FieldOrder) THEN Return(result)
  ELSE LET k  == FieldOrder[i]
           xp == AddPrefix(xml_extract[k].path, nsid)
           c  == CheckField(k, Find(doc, k, xp, ns))
       IN  IF c.kind = "raise" THEN c
           ELSE ExtractLoop(doc, nsid, ns, i + 1, (k :> c.value) @@ result)

\* The body of the loop over the Point elements (lines 198-201).
PointStep(doc, nsid, ns, pt, sop, reso, epl) ==
  LET index == AddPrefix(<< Level("position") >>, nsid)
      price == AddPrefix(<< Level("price.amount") >>, nsid)
      ti == FindChild(doc, pt.position, index, ns)
      tp == FindChild(doc, pt.amount, price, ns)
  IN  IF ti.t = "absent" THEN Raise("AttributeError", "text", "position")
      ELSE IF ti.t = "none" THEN Raise("TypeError", "int", "position")
      ELSE IF ti.s \notin IntTexts THEN Raise("ValueError", "int", "position")
      ELSE IF tp.t = "absent" THEN Raise("AttributeError", "text", "price.amount")
      ELSE IF tp.t = "none" THEN Raise("TypeError", "float", "price.amount")
      ELSE IF tp.s \notin FloatTexts THEN Raise("ValueError", "float", "price.amount")
      ELSE LET vt == PointInstant(sop, IntOf(ti.s), reso)
           IN  Return([x \in DOMAIN epl \cup {vt} |->
                         IF x = vt THEN FloatOf(tp.s) ELSE epl[x]])

\* The loop over the Point elements (lines 197-201) from the i-th on.
RECURSIVE PointLoop(_, _, _, _, _, _, _, _)
PointLoop(doc, nsid, ns, lop, sop, reso, i, epl) ==
  IF i > Len(lop) THEN Return(epl)
  ELSE LET s == PointStep(doc, nsid, ns, lop[i], sop, reso, epl)
       IN  IF s.kind = "raise" THEN s
           ELSE PointLoop(doc, nsid, ns, lop, sop, reso, i + 1, s.value)

\* The clean-up (lines 203-205): the keys of result that are returned.
KeptKeys(keys) == { k \in keys : ~(k \in FieldKeys /\ xml_extract[k].cleanup) }

\* The whole method: [ret, xmlns_id], how the call ends and the global after it.
ParseXmlResponse(doc, nsid0) ==
  IF ~doc.wellformed
    THEN [ret |-> Raise("XMLSyntaxError", "fromstring", None), xmlns_id |-> nsid0]
  ELSE
    LET nsmap == Nsmap(doc)
        ns    == IF None \in DOMAIN nsmap THEN (nsid0 :> nsmap[None]) ELSE NoNs
        nsid  == IF ns = NoNs THEN None ELSE nsid0
        ext   == ExtractLoop(doc, nsid, ns, 1, ("epl" :> NoNs))
    IN  IF ext.kind = "raise" THEN [ret |-> ext, xmlns_id |-> nsid]
        ELSE
          LET r0   == ext.value
              unit == UnitString(r0["unit_cur"], r0["unit_pmu"])
              sop  == UtcTs(r0["sop"])
              eop  == UtcTs(r0["eop"])
              reso == ResoS(r0["reso"])
          IN  IF sop.kind = "raise" THEN [ret |-> sop, xmlns_id |-> nsid]
              ELSE IF eop.kind = "raise" THEN [ret |-> eop, xmlns_id |-> nsid]
              ELSE IF reso.kind = "raise" THEN [ret |-> reso, xmlns_id |-> nsid]
              ELSE
                LET point == AddPrefix(<< Level("TimeSeries"), Level("Period"),
                                          Level("Point") >>, nsid)
                    lop   == FindAll(doc, point, ns)
                    pl    == PointLoop(doc, nsid, ns, lop, sop.value, reso.value, 1, NoNs)
                IN  IF pl.kind = "raise" THEN [ret |-> pl, xmlns_id |-> nsid]
                    ELSE
                      LET r1 == ("epl" :> pl.value) @@ ("unit" :> unit)
                                  @@ ("sop" :> sop.value) @@ ("eop" :> eop.value)
                                  @@ ("reso" :> reso.value) @@ r0
                      IN  [ret |-> Return([k \in KeptKeys(DOMAIN r1) |-> r1[k]]),
                           xmlns_id |-> nsid]

(***************************************************************************)
(* The documents given to the parser.                                      *)
(***************************************************************************)
MaxPoints == 2

TS(Y, m, d, H, M) == [t |-> "ts", Y |-> Y, m |-> m, d |-> d, H |-> H, M |-> M]
PT(n, u) == [t |-> "pt", n |-> n, u |-> u]
Point(p, a) == [position |-> p, amount |-> a]

Fields(ty, cv, cu, pm, so, eo, re) ==
  [k \in FieldKeys |->
     CASE k = "doc_type" -> ty [] k = "curv_typ" -> cv [] k = "unit_cur" -> cu
       [] k = "unit_pmu" -> pm [] k = "sop" -> so [] k = "eop" -> eo
       [] k = "reso" -> re]

Doc(wf, dns, fields, points) ==
  [wellformed |-> wf, defaultns |-> dns, fields |-> fields, points |-> points]

GoodFields ==
  Fields(Str("A44"), Str("A01"), Str("EUR"), Str("MWH"),
         TS(2023, 3, 15, 23, 0), TS(2023, 3, 16, 23, 0), PT(60, "M"))

\* Text that etree.fromstring rejects.
MalformedDoc == Doc(FALSE, TRUE, GoodFields, << Point(Str("1"), Str("10.5")) >>)

\* Every combination of the scalar fields being absent, empty, right or wrong.
ScalarDocs ==
  { Doc(TRUE, dns, Fields(ty, cv, cu, pm, so, eo, re), << Point(Str("1"), Str("10.5")) >>) :
      dns \in BOOLEAN,
      ty \in {Absent, NoText, Str("A44"), Str("A09")},
      cv \in {Absent, Str("A01"), Str("A03")},
      cu \in {Absent, Str("EUR"), Str("USD")},
      pm \in {Absent, NoText, Str("MWH")},
      so \in {Absent, NoText, TS(2023, 3, 15, 23, 0), TS(2023, 2, 30, 0, 0),
              Str("2023-03-15 23:00")},
      eo \in {Absent, TS(2023, 3, 16, 23, 0), Str("tomorrow")},
      re \in {Absent, NoText, PT(15, "M"), PT(60, "S"), PT(1, "X"), Str("15M")} }

GoodPoints == { Point(Str("1"), Str("10.5")), Point(Str("1"), Str("20")),
                Point(Str("2"), Str("10.5")), Point(Str("3"), Str("20")),
                Point(Str("01"), Str("10.50")), Point(Str("0"), Str("-3.2")) }

BadPoints == { Point(Absent, Str("20")), Point(NoText, Str("20")), Point(Str("x"), Str("20")),
               Point(Str("2"), Absent), Point(Str("2"), NoText), Point(Str("2"), Str("n/a")) }

RECURSIVE SeqsUpTo(_, _)
SeqsUpTo(S, n) ==
  IF n = 0 THEN { << >> }
  ELSE LET shorter == SeqsUpTo(S, n - 1)
       IN  shorter \cup { Append(q, x) : q \in shorter, x \in S }

\* Documents whose scalar fields are right, with every sequence of Points.
PointDocs ==
  { Doc(TRUE, dns, Fields(Str("A44"), Str("A01"), Str("EUR"), Str("MWH"), so,
                          TS(2023, 3, 16, 23, 0), re), pts) :
      dns \in BOOLEAN,
      so \in {TS(2023, 3, 15, 23, 0), TS(2023, 3, 25, 22, 0)},
      re \in {PT(15, "M"), PT(1, "H"), PT(0, "S")},
      pts \in SeqsUpTo(GoodPoints \cup BadPoints, MaxPoints) }

Docs == {MalformedDoc} \cup ScalarDocs \cup PointDocs

NoDoc == [wellformed |-> FALSE, defaultns |-> FALSE, fields |-> None, points |-> << >>]

\* The clock of the model: ClockSteps steps of StepSeconds from ClockStart.
ClockSteps == 20
StepSeconds == 90 * 60
ClockStart == Timegm(2023, 3, 25, 20, 10, 7)

\* An optional time-out is a sequence of at most one number: << >> is None.
NoTimeout == << >>

NoPayload == [documentType |-> None]
NoResponse == [status_code |-> 0]
NoWindow == [sent |-> FALSE]

(***************************************************************************)
(* The state after import and construction of the client.                  *)
(***************************************************************************)
Init ==
  /\ xmlns_id = "entsoe"
  /\ self \in [webkey : {"your-web-key"}, timeout : {NoTimeout, << 10 >>}]
  /\ zone \in Zones
  /\ now = ClockStart
  /\ pc = "idle"
  /\ kind = None
  /\ payload = NoPayload
  /\ getTimeout = NoTimeout
  /\ gets = 0
  /\ parses = 0
  /\ response = NoResponse
  /\ xmldoc = NoDoc
  /\ ret = NoRet
  /\ lastSent = [q \in {"today", "day_ahead"} |-> NoWindow]

(***************************************************************************)
(* Direct calls of _parse_xml_response.                                    *)
(***************************************************************************)
ParseCall(d) ==
  /\ pc = "idle"
  /\ LET r == ParseXmlResponse(d, xmlns_id)
     IN  /\ ret' = r.ret
         /\ xmlns_id' = r.xmlns_id
  /\ xmldoc' = d
  /\ parses' = 1
  /\ pc' = "returned"
  /\ UNCHANGED << self, zone, now, kind, payload, getTimeout, gets, response, lastSent >>

\* The caller takes the result or the exception and goes on.
CallerContinues ==
  /\ pc = "returned"
  /\ pc' = "idle"
  /\ kind' = None
  /\ payload' = NoPayload
  /\ getTimeout' = NoTimeout
  /\ gets' = 0
  /\ parses' = 0
  /\ response' = NoResponse
  /\ xmldoc' = NoDoc
  /\ ret' = NoRet
  /\ UNCHANGED << xmlns_id, self, zone, now, lastSent >>

InitParse == Init /\ zone = "UTC" /\ self.timeout = NoTimeout

NextParse ==
  \/ pc = "idle" /\ \E d \in Docs : ParseCall(d)
  \/ CallerContinues

SpecParse == InitParse /\ [][NextParse]_vars

(***************************************************************************)
(* The public queries (lines 213-244) and the transport (lines 89-105).    *)
(***************************************************************************)
\* _ts_last_midnight (lines 130-133).
TsLastMidnight(z, t) ==
  LET ts == Localtime(z, t)
  IN  t - ts.tm_hour * 3600 - ts.tm_min * 60 - ts.tm_sec

\* _ts_utc (lines 140-142): gmtime, then strftime with '%Y%m%d%H00'.
TsUtc(ts) ==
  LET g == Gmtime(ts)
  IN  [Y |-> g.tm_year, m |-> g.tm_mon, d |-> g.tm_mday, H |-> g.tm_hour, M |-> 0]

\* The start of the window of query_today_prices (line 231).
TodayStart(tlm) == tlm

\* Mutant of DayAheadStart: the day is not added.
DayAheadStart_SameDay(tlm) == tlm

\* The start of the window of query_day_ahead_prices (line 241).
DayAheadStart(tlm) == tlm + one_day

\* The date and the offset from UTC that time.localtime gives for an instant.
LocalReading(z, t) ==
  LET ts == Localtime(z, t)
  IN  [tm_year |-> ts.tm_year, tm_mon |-> ts.tm_mon, tm_mday |-> ts.tm_mday,
       tm_gmtoff |-> UtcOffset(z, t)]

\* _query_prices up to the call of requests.get (lines 213-222, 90): the
\* payload is built and the GET is issued, without a timeout argument.
QueryPrices(q, start) ==
  /\ payload' = [documentType |-> document_type, in_Domain |-> domain,
                 out_Domain |-> domain, securityToken |-> self.webkey,
                 periodStart |-> TsUtc(start), periodEnd |-> TsUtc(start + one_day)]
  /\ gets' = gets + 1
  /\ getTimeout' = NoTimeout
  /\ kind' = q
  /\ pc' = "sent"
  /\ lastSent' = [lastSent EXCEPT ![q] =
                    [sent |-> TRUE, periodStart |-> TsUtc(start),
                     periodEnd |-> TsUtc(start + one_day),
                     read |-> LocalReading(zone, now)]]
  /\ UNCHANGED << xmlns_id, self, zone, now, parses, response, xmldoc, ret >>

\* query_today_prices (lines 230-234).
QueryTodayPrices ==
  /\ pc = "idle"
  /\ QueryPrices("today", TodayStart(TsLastMidnight(zone, now)))

\* query_day_ahead_prices (lines 240-244).
QueryDayAheadPrices ==
  /\ pc = "idle"
  /\ QueryPrices("day_ahead", DayAheadStart(TsLastMidnight(zone, now)))

\* Mutant of RaiseForStatus: the status is not checked.
RaiseForStatus_Never(r) == FALSE

\* r.raise_for_status() (line 92): an HTTPError for a 4xx or 5xx status.
RaiseForStatus(r) == r.status_code \in 400..599

\* Mutant of NoDataFound: the body is not searched.
NoDataFound_Never(r) == FALSE

\* The test of lines 101-102.
NoDataFound(r) == r.content_type = "application/xml" /\ r.marker

\* The responses the server may give: status, content-type header ("" when
\* the header is missing), whether the text contains 'No matching data found',
\* and the document in the text.
GoodDoc == Doc(TRUE, TRUE, GoodFields,
               << Point(Str("1"), Str("10.5")), Point(Str("2"), Str("20")) >>)

AckDoc == Doc(TRUE, TRUE, Fields(Absent, Absent, Absent, Absent, Absent, Absent, Absent),
              << >>)

PlainDoc == Doc(TRUE, FALSE, GoodFields, << Point(Str("1"), Str("10.5")) >>)

Responses ==
  [status_code : {200, 404}, content_type : {"application/xml", "text/xml", ""},
   marker : BOOLEAN, body : {GoodDoc, AckDoc, PlainDoc, MalformedDoc}]

\* requests.get returns r; the rest of _base_request and _query_prices
\* (lines 91-105, 224).
TransportResponds(r) ==
  /\ pc = "sent"
  /\ response' = r
  /\ IF RaiseForStatus(r)
       THEN /\ ret' = Raise("HTTPError", "raise_for_status", None)
            /\ UNCHANGED << xmlns_id, parses, xmldoc >>
     ELSE IF NoDataFound(r)
       THEN /\ ret' = Raise("entsoeException", "No matching data found", None)
            /\ UNCHANGED << xmlns_id, parses, xmldoc >>
     ELSE LET p == ParseXmlResponse(r.body, xmlns_id)
          IN  /\ ret' = p.ret
              /\ xmlns_id' = p.xmlns_id
              /\ parses' = parses + 1
              /\ xmldoc' = r.body
  /\ pc' = "returned"
  /\ UNCHANGED << self, zone, now, kind, payload, getTimeout, gets, lastSent >>

\* requests.get raises instead of returning: the connection fails, or, when a
\* timeout was given to it, the timeout expires.
TransportFails(e) ==
  /\ pc = "sent"
  /\ e \in {"ConnectionError"} \cup (IF getTimeout # NoTimeout THEN {"Timeout"} ELSE {})
  /\ ret' = Raise(e, "get", None)
  /\ pc' = "returned"
  /\ UNCHANGED << xmlns_id, self, zone, now, kind, payload, getTimeout, gets,
                  parses, response, xmldoc, lastSent >>

\* The system clock advances.
Tick ==
  /\ now + StepSeconds <= ClockStart + ClockSteps * StepSeconds
  /\ now' = now + StepSeconds
  /\ UNCHANGED << xmlns_id, self, zone, pc, kind, payload, getTimeout, gets,
                  parses, response, xmldoc, ret, lastSent >>

Next ==
  \/ QueryTodayPrices
  \/ QueryDayAheadPrices
  \/ pc = "sent" /\ \E r \in Responses : TransportResponds(r)
  \/ \E e \in {"ConnectionError", "Timeout"} : TransportFails(e)
  \/ CallerContinues
  \/ Tick

Spec == Init /\ [][Next]_vars

(***************************************************************************)
(* Properties of the parser, checked under SpecParse.                      *)
(***************************************************************************)
\* The parser was called on xmldoc and returned a value.
Parsed == parses > 0 /\ ret.kind = "return"

\* Period start S and resolution R (seconds) of a document that was accepted.
StartOf(d) == Timegm(d.fields["sop"].Y, d.fields["sop"].m, d.fields["sop"].d,
                     d.fields["sop"].H, d.fields["sop"].M, 0)

ResolutionOf(d) ==
  LET r == d.fields["reso"]
  IN  CASE r.u = "S" -> r.n [] r.u = "M" -> 60 * r.n [] r.u = "H" -> 3600 * r.n

\* The key S + (p-1)*R of the i-th Point of a document.
KeyOf(d, i) == StartOf(d) + (IntOf(d.points[i].position.s) - 1) * ResolutionOf(d)

\* The last Point of the document with the same key as the i-th.
LastAt(d, i) ==
  CHOOSE j \in i..Len(d.points) :
    /\ KeyOf(d, j) = KeyOf(d, i)
    /\ \A h \in (j + 1)..Len(d.points) : KeyOf(d, h) # KeyOf(d, i)

\* C1 as stated: every Point (position p, amount v) of an accepted document is
\* in the returned price mapping at key S + (p-1)*R with its own value v.
C1_EveryPointOwnValue ==
  Parsed =>
    \A i \in 1..Len(xmldoc.points) :
      /\ KeyOf(xmldoc, i) \in DOMAIN ret.value["epl"]
      /\ ret.value["epl"][KeyOf(xmldoc, i)] = FloatOf(xmldoc.points[i].amount.s)

\* C1 amended: every Point of an accepted document has its key S + (p-1)*R in
\* the returned price mapping, and the value there is the amount of the last
\* Point in document order with that key (its own amount unless a later
\* Point has the same key).
C1_LastPointWins ==
  Parsed =>
    \A i \in 1..Len(xmldoc.points) :
      /\ KeyOf(xmldoc, i) \in DOMAIN ret.value["epl"]
      /\ ret.value["epl"][KeyOf(xmldoc, i)] =
           FloatOf(xmldoc.points[LastAt(xmldoc, i)].amount.s)

\* An accepted document with two Points on the same key and different amounts,
\* of which the mapping keeps one entry.
C1_Witness ==
  /\ Parsed
  /\ Len(xmldoc.points) >= 2
  /\ \E i, j \in 1..Len(xmldoc.points) :
       /\ i < j
       /\ KeyOf(xmldoc, i) = KeyOf(xmldoc, j)
       /\ FloatOf(xmldoc.points[i].amount.s) # FloatOf(xmldoc.points[j].amount.s)
  /\ ResolutionOf(xmldoc) = 900
  /\ Cardinality(DOMAIN ret.value["epl"]) = 1

\* C2 as stated: the returned value is the price mapping only; no scalar
\* document field (period start, period end, resolution) and no unit string
\* is part of it.
C2_PriceMappingOnly ==
  Parsed => DOMAIN ret.value \cap {"sop", "eop", "reso", "unit"} = {}

\* C3 as stated: after any sequence of parse calls the name space identifier
\* has the value it had before the first call.
C3_NamespaceIdKept == xmlns_id = "entsoe"

\* The violations of a document that C5 lists.
Violates(d) ==
  \/ ~d.wellformed
  \/ \E k \in FieldKeys : d.fields[k].t \in {"absent", "none"}
  \/ d.fields["doc_type"] # Str("A44")
  \/ d.fields["curv_typ"] # Str("A01")
  \/ d.fields["unit_cur"] # Str("EUR")
  \/ \E k \in {"sop", "eop"} :
       ~(/\ d.fields[k].t = "ts"
         /\ d.fields[k].m \in 1..12
         /\ d.fields[k].d \in 1..DaysInMonth(d.fields[k].Y, d.fields[k].m)
         /\ d.fields[k].H \in 0..23
         /\ d.fields[k].M \in 0..59)
  \/ ~(d.fields["reso"].t = "pt" /\ d.fields["reso"].u \in {"S", "M", "H"})
  \/ \E i \in 1..Len(d.points) :
       \/ d.points[i].position.t # "s"
       \/ d.points[i].amount.t # "s"
       \/ d.points[i].position.s \notin IntTexts
       \/ d.points[i].amount.s \notin FloatTexts

\* C5 as stated: every structural or semantic violation makes the parse fail
\* with the parse error kind, the kind raised for a missing scalar field.
C5_ViolationRaisesParseError ==
  (parses > 0 /\ Violates(xmldoc)) =>
    (ret.kind = "raise" /\ ret.exc = "entsoeException")

\* The seven required scalar fields in table order, and the literals required.
C9_Table == << "doc_type", "curv_typ", "unit_cur", "unit_pmu", "sop", "eop", "reso" >>

C9_Literal(k) ==
  CASE k = "doc_type" -> "A44" [] k = "curv_typ" -> "A01" [] k = "unit_cur" -> "EUR"
    [] OTHER -> None

C9_Offending(d, i) ==
  LET v == d.fields[C9_Table[i]]
  IN  \/ v.t = "absent"
      \/ /\ C9_Literal(C9_Table[i]) # None
         /\ ~(v.t = "s" /\ v.s = C9_Literal(C9_Table[i]))

\* C9: a parse returns a result only if all seven scalar fields are present and
\* the three literals match; if a field is absent or a literal differs, the
\* parse raises the error that names the first offending field in table order
\* ("Unknown field" when absent, "Unexpected value" when different), and
\* nothing is returned.
C9_FirstOffendingFieldNamed ==
  (parses > 0 /\ xmldoc.wellformed) =>
    LET off == { i \in 1..7 : C9_Offending(xmldoc, i) }
    IN  /\ ret.kind = "return" => off = {}
        /\ off # {} =>
             LET first == CHOOSE i \in off : \A j \in off : i <= j
             IN  /\ ret.kind = "raise"
                 /\ ret.exc = "entsoeException"
                 /\ ret.field = C9_Table[first]
                 /\ ret.what = IF xmldoc.fields[C9_Table[first]].t = "absent"
                                 THEN "Unknown field" ELSE "Unexpected value"
                 /\ "value" \notin DOMAIN ret

\* A document without curveType, with a wrong currency and without resolution,
\* parsed after the name space identifier was cleared: curveType is named.
C9_Witness ==
  /\ parses > 0
  /\ xmldoc.wellformed
  /\ xmldoc.defaultns
  /\ xmlns_id = None
  /\ xmldoc.fields["doc_type"] = Str("A44")
  /\ xmldoc.fields["curv_typ"].t = "absent"
  /\ xmldoc.fields["unit_cur"] = Str("USD")
  /\ xmldoc.fields["reso"].t = "absent"
  /\ ret.kind = "raise"
  /\ ret.field = "curv_typ"

(***************************************************************************)
(* Properties of the queries and the transport, checked under Spec.        *)
(***************************************************************************)
\* The instant a wire time string YYYYMMDDHHMM denotes, in UTC.
WireInstant(w) == Timegm(w.Y, w.m, w.d, w.H, w.M, 0)

\* The content types that say the body is XML.
XmlContentTypes == {"application/xml", "text/xml"}

NoDataRaised ==
  /\ ret.kind = "raise"
  /\ ret.exc = "entsoeException"
  /\ ret.what = "No matching data found"

WindowSeconds(w) == WireInstant(w.periodEnd) - WireInstant(w.periodStart)

LocalMidnight(z, read) ==
  LET base == Timegm(read.tm_year, read.tm_mon, read.tm_mday, 0, 0, 0)
  IN  CHOOSE t \in { base - o : o \in {0, 3600, 7200, 19800, 0 - 14400} } :
        UtcOffset(z, t) = base - t

\* C7 as stated: the periodStart sent by query_today_prices denotes the
\* instant of 00:00:00 local time of the current local day.
C7_TodayStartsAtLocalMidnight ==
  lastSent["today"].sent =>
    WireInstant(lastSent["today"].periodStart) =
      LocalMidnight(zone, lastSent["today"].read)

\* C8 as stated: a client constructed with a timeout issues its GET with that
\* timeout.
C8_GetCarriesTimeout ==
  (pc = "sent" /\ self.timeout # NoTimeout) => getTimeout = self.timeout

\* The transport failed: requests.get raised, or the status is an error.
TransportFailed ==
  pc = "returned" /\ (response.status_code = 0 \/ response.status_code >= 400)

OneGetAtMostOneParse ==
  /\ gets <= 1
  /\ pc \in {"sent", "returned"} => gets = 1
  /\ parses <= 1
  /\ TransportFailed => parses = 0

\* C10 as stated: one GET per query, at most one parse, and that only after
\* the GET returned a success status without the no-data marker; no parse
\* when the transport fails.
C10_ParseOnlyWithoutMarker ==
  /\ OneGetAtMostOneParse
  /\ parses = 1 =>
       (pc = "returned" /\ response.status_code \in 200..399 /\ ~response.marker)

\* C10 amended: one GET per query, at most one parse, and that only after the
\* GET returned a success status and the no-data test (content-type exactly
\* application/xml and the marker in the body) did not hold; no parse when
\* the transport fails.
C10_ParseOnlyAfterChecks ==
  /\ OneGetAtMostOneParse
  /\ parses = 1 =>
       /\ pc = "returned"
       /\ response.status_code \in 200..399
       /\ ~(response.content_type = "application/xml" /\ response.marker)

\* A query whose response passed both tests and was parsed, once.
C10_Witness ==
  /\ pc = "returned"
  /\ gets = 1
  /\ parses = 1
  /\ response.status_code = 200
  /\ response.content_type = "text/xml"
  /\ ret.kind = "return"
  /\ xmldoc = response.body
=============================================================================
